---- MODULE Spec2Model ----
\* A model of terminal-render (src/main.rs): the maze generator, the game
\* state with its move operation, and the input loop and render thread that
\* talk through an mpsc channel.
EXTENDS Integers, Sequences, FiniteSets, TLC

VARIABLES
    pc,      \* where main is: "gen" (in generate_maze's loop), "send0" (line 218),
             \* "loop" (lines 224-239), "panic"
    gen,     \* the locals of generate_maze: board, pos, visited, stack, popped
    state,   \* main's GameState: board, position, win_position, victory
    c,       \* the character main's loop read last (line 225)
    render,  \* the render thread: where it is, its locals wd, ht, draw_x, draw_y,
             \* whether the size is the fallback of line 244, the banner of
             \* the last drawing, and the receives that returned Err
    chan,    \* the mpsc channel: the snapshots sent and not yet received
    keys,    \* history: the characters read so far
    sent,    \* history: every snapshot main sent, with the state it was cloned from
    rcvd     \* history: the snapshots the render thread received, in order

vars == <<pc, gen, state, c, render, chan, keys, sent, rcvd>>

\* ---------------------------------------------------------------- sizes
\* The side of the logical grid (13 in the source, scaled down here).
GEN_SIZE == 4
\* The side of the display grid: 25 = 2*13 - 1 in the source.
BOARD_SIZE == 2 * GEN_SIZE - 1

SYMBOL == "P"
GOAL == "G"
WALL == "#"
EMPTY == " "

Position(x, y) == [x |-> x, y |-> y]

\* ------------------------------------------------------- generate_maze
GenCells == 0 .. GEN_SIZE - 1
Cells == 0 .. BOARD_SIZE - 1

\* lines 113-121: the locals before the loop; carved is the history of the
\* forward moves, each as the pair of cells it joined
GenStart ==
    LET p0 == Position(GEN_SIZE \div 2, GEN_SIZE \div 2)
    IN [board   |-> [y \in GenCells |-> [x \in GenCells |->
                        [wall_right |-> FALSE, wall_bottom |-> FALSE]]],
        pos     |-> p0,
        visited |-> {},
        stack   |-> <<p0>>,
        popped  |-> FALSE,
        panic   |-> FALSE,
        carved  |-> {}]

\* a loop condition without the test of the stack
LoopCondNoStack(g) ==
    Cardinality(g.visited) < BOARD_SIZE * BOARD_SIZE

\* a loop condition that counts the visited cells against one row
LoopCondRow(g) ==
    Len(g.stack) > 0 /\ Cardinality(g.visited) < GEN_SIZE

\* line 122: the loop condition
LoopCond(g) ==
    Len(g.stack) > 0 /\ Cardinality(g.visited) < BOARD_SIZE * BOARD_SIZE

\* lines 126-161: the neighbours inside the grid, in the order the code tries
\* them (up, left, down, right)
Neighbours(p) ==
    (IF p.y > 0 THEN <<[dir |-> "UP", mv |-> Position(p.x, p.y - 1)]>> ELSE <<>>)
    \o (IF p.x > 0 THEN <<[dir |-> "LEFT", mv |-> Position(p.x - 1, p.y)]>> ELSE <<>>)
    \o (IF p.y < GEN_SIZE - 1
        THEN <<[dir |-> "DOWN", mv |-> Position(p.x, p.y + 1)]>> ELSE <<>>)
    \o (IF p.x < GEN_SIZE - 1
        THEN <<[dir |-> "RIGHT", mv |-> Position(p.x + 1, p.y)]>> ELSE <<>>)

\* line 123 and the visited tests of lines 129, 138, 147, 156
VisitedNow(g) == g.visited \cup {g.pos}

IsUnvisited(g, n) == n.mv \notin VisitedNow(g)

\* the moves vector of the iteration (lines 125-161)
Moves(g) ==
    LET ns == Neighbours(g.pos)
        RECURSIVE Pick(_)
        Pick(i) == IF i > Len(ns) THEN <<>>
                   ELSE (IF IsUnvisited(g, ns[i]) THEN <<ns[i].mv>> ELSE <<>>)
                        \o Pick(i + 1)
    IN Pick(1)

\* WallCond without the test of the popped flag
WallCondAfterPop(g, n) == ~IsUnvisited(g, n) /\ g.stack[Len(g.stack)] # n.mv

\* WallCond without the test against the top of the stack
WallCondNoTop(g, n) == ~IsUnvisited(g, n) /\ ~g.popped

\* lines 131, 140, 149, 158: a visited neighbour gets a wall when the loop did
\* not just pop and the neighbour is not the top of the stack
WallCond(g, n) ==
    ~IsUnvisited(g, n) /\ ~g.popped /\ g.stack[Len(g.stack)] # n.mv

\* lines 132, 141, 150, 159: which flag of which cell records the wall
SetWall(b, p, n) ==
    CASE n.dir = "UP"    -> [b EXCEPT ![n.mv.y][n.mv.x].wall_bottom = TRUE]
      [] n.dir = "LEFT"  -> [b EXCEPT ![n.mv.y][n.mv.x].wall_right = TRUE]
      [] n.dir = "DOWN"  -> [b EXCEPT ![p.y][p.x].wall_bottom = TRUE]
      [] n.dir = "RIGHT" -> [b EXCEPT ![p.y][p.x].wall_right = TRUE]

\* the board after the four neighbour tests of one iteration
WallsAdded(g) ==
    LET ns == Neighbours(g.pos)
        RECURSIVE Go(_, _)
        Go(b, i) == IF i > Len(ns) THEN b
                    ELSE Go(IF WallCond(g, ns[i]) THEN SetWall(b, g.pos, ns[i]) ELSE b,
                            i + 1)
    IN Go(g.board, 1)

\* an iteration whose forward move leaves the popped flag as it was
LoopBodyKeepPopped(g, idx) ==
    LET moves == Moves(g)
        b == WallsAdded(g)
    IN IF Len(moves) > 0
       THEN [g EXCEPT !.board = b, !.visited = VisitedNow(g),
                      !.stack = Append(g.stack, g.pos),
                      !.pos = moves[idx + 1],
                      !.carved = @ \cup {{g.pos, moves[idx + 1]}}]
       ELSE IF Len(g.stack) = 0
            THEN [g EXCEPT !.board = b, !.visited = VisitedNow(g), !.panic = TRUE]
            ELSE [g EXCEPT !.board = b, !.visited = VisitedNow(g),
                           !.pos = g.stack[Len(g.stack)],
                           !.stack = SubSeq(g.stack, 1, Len(g.stack) - 1),
                           !.popped = TRUE]

\* lines 123-174: one iteration of the loop; idx is what gen_range returned
LoopBody(g, idx) ==
    LET moves == Moves(g)
        b == WallsAdded(g)
    IN IF Len(moves) > 0
       THEN [g EXCEPT !.board = b, !.visited = VisitedNow(g),
                      !.stack = Append(g.stack, g.pos),
                      !.popped = FALSE,
                      !.pos = moves[idx + 1],
                      !.carved = @ \cup {{g.pos, moves[idx + 1]}}]
       ELSE IF Len(g.stack) = 0
            THEN [g EXCEPT !.board = b, !.visited = VisitedNow(g), !.panic = TRUE]
            ELSE [g EXCEPT !.board = b, !.visited = VisitedNow(g),
                           !.pos = g.stack[Len(g.stack)],
                           !.stack = SubSeq(g.stack, 1, Len(g.stack) - 1),
                           !.popped = TRUE]

\* lines 177-208: the render board, built cell by cell in the order of the two
\* for loops; oob records a write outside the array (a panic in the source)
Put(r, y, x) ==
    IF y \in Cells /\ x \in Cells
    THEN [r EXCEPT !.board[y][x] = WALL]
    ELSE [r EXCEPT !.oob = TRUE]

\* an expansion that leaves out the last column's wall_bottom
ExpandCellNoLastColumn(r, b, y, x) ==
    LET cell == b[y][x]
        ry == 2 * y
        rx == 2 * x
        r1 == IF cell.wall_bottom THEN Put(r, ry + 1, rx) ELSE r
        r2 == IF cell.wall_right THEN Put(r1, ry, rx + 1) ELSE r1
    IN IF y < GEN_SIZE - 1
       THEN IF x < GEN_SIZE - 1
            THEN Put(r2, ry + 1, rx + 1)
            ELSE r
       ELSE IF cell.wall_right THEN Put(r, ry, rx + 1) ELSE r

\* lines 180-207, the body of the two for loops for the logical cell (x, y)
ExpandCell(r, b, y, x) ==
    LET cell == b[y][x]
        ry == 2 * y
        rx == 2 * x
        r1 == IF cell.wall_bottom THEN Put(r, ry + 1, rx) ELSE r
        r2 == IF cell.wall_right THEN Put(r1, ry, rx + 1) ELSE r1
    IN IF y < GEN_SIZE - 1
       THEN IF x < GEN_SIZE - 1
            THEN Put(r2, ry + 1, rx + 1)
            ELSE r1
       ELSE IF cell.wall_right THEN Put(r, ry, rx + 1) ELSE r

Expand(b) ==
    LET RECURSIVE Go(_, _)
        Go(r, k) == IF k = GEN_SIZE * GEN_SIZE THEN r
                    ELSE Go(ExpandCell(r, b, k \div GEN_SIZE, k % GEN_SIZE), k + 1)
    IN Go([board |-> [y \in Cells |-> [x \in Cells |-> EMPTY]], oob |-> FALSE], 0)

\* ------------------------------------------------------------ GameState
\* lines 49-64
GameStateNew(rb) ==
    LET position == Position(0, 0)
        win_position == Position(BOARD_SIZE - 1, BOARD_SIZE - 1)
        b1 == [rb EXCEPT ![position.y][position.x] = SYMBOL]
        b2 == [b1 EXCEPT ![win_position.y][win_position.x] = GOAL]
    IN [board |-> b2, position |-> position, win_position |-> win_position,
        victory |-> FALSE]

\* lines 68-86: the destination of a move, clamped at the grid's edges
NewPos(position, action) ==
    CASE action = "UP"    -> IF position.y >= 1
                             THEN [position EXCEPT !.y = position.y - 1]
                             ELSE position
      [] action = "DOWN"  -> IF position.y < BOARD_SIZE - 1
                             THEN [position EXCEPT !.y = position.y + 1]
                             ELSE position
      [] action = "LEFT"  -> IF position.x >= 1
                             THEN [position EXCEPT !.x = position.x - 1]
                             ELSE position
      [] action = "RIGHT" -> IF position.x < BOARD_SIZE - 1
                             THEN [position EXCEPT !.x = position.x + 1]
                             ELSE position

\* is_valid_move without the wall test
is_valid_move_any_cell(self, new_position) == ~self.victory

\* is_valid_move without the victory test
is_valid_move_after_win(self, new_position) ==
    self.board[new_position.y][new_position.x] # WALL

\* lines 102-104
is_valid_move(self, new_position) ==
    ~self.victory /\ self.board[new_position.y][new_position.x] # WALL

\* is_win_position comparing one coordinate only
is_win_position_x(self) == self.position.x = self.win_position.x

\* lines 106-108
is_win_position(self) == self.position = self.win_position

\* MovePlayer that leaves the old marker in place
MovePlayerNoBlank(self, new_pos) ==
    [self EXCEPT !.board = [self.board EXCEPT ![new_pos.y][new_pos.x] = SYMBOL],
                 !.position = new_pos]

\* MovePlayer that stamps the new cell first and blanks the old one after
MovePlayerBlankLast(self, new_pos) ==
    LET b1 == [self.board EXCEPT ![new_pos.y][new_pos.x] = SYMBOL]
        b2 == [b1 EXCEPT ![self.position.y][self.position.x] = EMPTY]
    IN [self EXCEPT !.board = b2, !.position = new_pos]

\* MovePlayer that writes the wall character into the old cell
MovePlayerLeavesWall(self, new_pos) ==
    LET b1 == [self.board EXCEPT ![self.position.y][self.position.x] = WALL]
        b2 == [b1 EXCEPT ![new_pos.y][new_pos.x] = SYMBOL]
    IN [self EXCEPT !.board = b2, !.position = new_pos]

\* lines 89-91: the old cell is blanked, then the new cell is stamped
MovePlayer(self, new_pos) ==
    LET b1 == [self.board EXCEPT ![self.position.y][self.position.x] = EMPTY]
        b2 == [b1 EXCEPT ![new_pos.y][new_pos.x] = SYMBOL]
    IN [self EXCEPT !.board = b2, !.position = new_pos]

\* lines 93-95
SetVictory(self) ==
    IF is_win_position(self) THEN [self EXCEPT !.victory = TRUE] ELSE self

\* lines 67-97
move_position(self, action) ==
    LET new_pos == NewPos(self.position, action)
    IN IF is_valid_move(self, new_pos)
       THEN SetVictory(MovePlayer(self, new_pos))
       ELSE self

\* the state variable before GameState::new has returned: no board yet
NoState ==
    [board |-> <<>>, position |-> Position(0, 0), win_position |-> Position(0, 0),
     victory |-> FALSE]

\* the render thread before line 217 spawns it
\* the banner part of the last drawing: the size of the message converted
\* (w, h), the number of its lines printed, and where the first one went
NoBanner == [w |-> 0, h |-> 0, lines |-> 0, x |-> 0, y |-> 0]

RenderNone ==
    [pc |-> "none", wd |-> 0, ht |-> 0, fallback |-> FALSE,
     draw_x |-> [wrapped |-> FALSE, v |-> 0], draw_y |-> [wrapped |-> FALSE, v |-> 0],
     banner |-> NoBanner, failed |-> 0]

\* ------------------------------------------------- generation, step by step
InitGen ==
    /\ pc = "gen"
    /\ gen = GenStart
    /\ state = NoState
    /\ c = "none"
    /\ render = RenderNone
    /\ chan = <<>>
    /\ keys = <<>>
    /\ sent = <<>>
    /\ rcvd = <<>>

notGen == <<c, chan, keys, sent, rcvd>>

\* line 217: the render thread is spawned and has not run yet
RenderSpawned == [RenderNone EXCEPT !.pc = "start"]

\* an iteration that finds an unvisited neighbour and moves to a random one
GenForward ==
    /\ pc = "gen"
    /\ LoopCond(gen)
    /\ Len(Moves(gen)) > 0
    /\ \E idx \in 0 .. Len(Moves(gen)) - 1 : gen' = LoopBody(gen, idx)
    /\ UNCHANGED <<pc, state, render>>
    /\ UNCHANGED notGen

\* an iteration that finds none and pops the stack
GenBacktrack ==
    /\ pc = "gen"
    /\ LoopCond(gen)
    /\ Len(Moves(gen)) = 0
    /\ gen' = LoopBody(gen, 0)
    /\ pc' = IF gen'.panic THEN "panic" ELSE "gen"
    /\ UNCHANGED <<state, render>>
    /\ UNCHANGED notGen

\* the loop has ended: lines 177-210, then GameState::new's lines 52-63
GenFinish ==
    /\ pc = "gen"
    /\ ~LoopCond(gen)
    /\ LET r == Expand(gen.board)
       IN IF r.oob
          THEN pc' = "panic" /\ UNCHANGED <<state, render>>
          ELSE /\ pc' = "send0"
               /\ state' = GameStateNew(r.board)
               /\ render' = RenderSpawned
    /\ UNCHANGED gen
    /\ UNCHANGED notGen

NextGen == GenForward \/ GenBacktrack \/ GenFinish

SpecGen == InitGen /\ [][NextGen]_vars

\* ------------------------------------------------------- the mpsc channel
\* a send that jumps the queue
SendFront(q, snapshot) == <<snapshot>> \o q

\* tx.send of lines 218 and 235: the snapshot joins the back of the queue
Send(q, snapshot) == Append(q, snapshot)

\* rx.recv of line 248: the snapshot at the front of the queue, and what stays
Received(q) == Head(q)

AfterRecv(q) == Tail(q)

\* --------------------------------------------------------- render, start
\* what term_size::dimensions() can answer (line 244): None, or a terminal
\* that holds the whole drawing
NoSize == [ok |-> FALSE, wd |-> 0, ht |-> 0]

Dimensions ==
    {NoSize, [ok |-> TRUE, wd |-> 3 * BOARD_SIZE + 5, ht |-> BOARD_SIZE + 5]}

\* line 244: unwrap_or((BOARD_SIZE + 1, BOARD_SIZE + 1))
TermSize(dim) ==
    IF dim.ok THEN [wd |-> dim.wd, ht |-> dim.ht, fallback |-> FALSE]
    ELSE [wd |-> BOARD_SIZE + 1, ht |-> BOARD_SIZE + 1, fallback |-> TRUE]

\* A usize n / 2, where a negative n stands for the wrapped value 2^64 + n:
\* [wrapped |-> TRUE, v |-> k] is the usize 2^63 - k.
Half(n) ==
    IF n >= 0 THEN [wrapped |-> FALSE, v |-> n \div 2]
    ELSE [wrapped |-> TRUE, v |-> (1 - n) \div 2]

\* line 245: a subtraction of the draw offsets goes below zero
OffsetsUnderflow(size) ==
    size.wd < 3 * BOARD_SIZE + 1 \/ size.ht < BOARD_SIZE

\* lines 244-245 with wrapping arithmetic
RenderLocals(size) ==
    [pc |-> "loop", wd |-> size.wd, ht |-> size.ht, fallback |-> size.fallback,
     draw_x |-> Half(size.wd - (3 * BOARD_SIZE + 1)),
     draw_y |-> Half(size.ht - BOARD_SIZE + 1),
     banner |-> NoBanner, failed |-> 0]

\* lines 244-245. An underflow panics the thread in a build with overflow
\* checks, which drops rx and the queued snapshots, and wraps in a build
\* without them.
RenderStart ==
    /\ pc \in {"send0", "loop", "dropped"}
    /\ render.pc = "start"
    /\ \E dim \in Dimensions :
          LET size == TermSize(dim)
          IN \/ render' = RenderLocals(size) /\ chan' = chan
             \/ /\ OffsetsUnderflow(size)
                /\ render' = [render EXCEPT !.pc = "dead", !.wd = size.wd,
                                             !.ht = size.ht,
                                             !.fallback = size.fallback]
                /\ chan' = <<>>
    /\ UNCHANGED <<pc, gen, state, c, keys, sent, rcvd>>

\* ------------------------------------------------------------------ main
Chars == {"w", "a", "s", "d", "x"}

\* the match with w and s exchanged
DispatchSwapped(self, ch) ==
    CASE ch = "w" -> move_position(self, "DOWN")
      [] ch = "a" -> move_position(self, "LEFT")
      [] ch = "s" -> move_position(self, "UP")
      [] ch = "d" -> move_position(self, "RIGHT")
      [] OTHER    -> self

\* the match whose default arm moves too
DispatchOtherMoves(self, ch) ==
    CASE ch = "w" -> move_position(self, "UP")
      [] ch = "a" -> move_position(self, "LEFT")
      [] ch = "s" -> move_position(self, "DOWN")
      [] OTHER    -> move_position(self, "RIGHT")

\* lines 226-232: the match on the character read
Dispatch(self, ch) ==
    CASE ch = "w" -> move_position(self, "UP")
      [] ch = "a" -> move_position(self, "LEFT")
      [] ch = "s" -> move_position(self, "DOWN")
      [] ch = "d" -> move_position(self, "RIGHT")
      [] OTHER    -> self

\* lines 218-220: the first snapshot; a send to a dropped receiver panics main
SendInitialCore ==
    /\ pc = "send0"
    /\ IF render.pc = "dead"
       THEN pc' = "panic" /\ chan' = chan
       ELSE pc' = "loop" /\ chan' = Send(chan, state)
    /\ UNCHANGED <<gen, state, c, render>>

\* a loop pass that sends only when the move changed the state
ReadCharCoreSkipNoOp(ch) ==
    /\ pc = "loop"
    /\ c' = ch
    /\ state' = Dispatch(state, ch)
    /\ IF render.pc = "dead"
       THEN pc' = "panic" /\ chan' = chan
       ELSE pc' = pc /\ chan' = IF state' = state THEN chan ELSE Send(chan, state')
    /\ UNCHANGED <<gen, render>>

\* lines 225-237: one character read, the move, the snapshot sent. (A read
\* that fails changes nothing and is a stuttering step.)
ReadCharCore(ch) ==
    /\ pc = "loop"
    /\ c' = ch
    /\ state' = Dispatch(state, ch)
    /\ IF render.pc = "dead"
       THEN pc' = "panic" /\ chan' = chan
       ELSE pc' = pc /\ chan' = Send(chan, state')
    /\ UNCHANGED <<gen, render>>

\* line 280: what ffont.convert("You Did It!") can answer: None, or the
\* message in the standard font, six lines high, wider than the board's side
\* and narrower than the drawing
NoMsg == [some |-> FALSE, w |-> 0, h |-> 0]

Messages == {NoMsg, [some |-> TRUE, w |-> 2 * BOARD_SIZE, h |-> 6]}

\* lines 278-292: the banner over a snapshot with victory set. A message that
\* does not fit has m_w and m_h zeroed (lines 283-286), and the loop of lines
\* 288-291 prints every line of it all the same.
Overlay(r, snapshot, msg) ==
    IF ~snapshot.victory \/ ~msg.some THEN NoBanner
    ELSE LET fits == ~(msg.w > r.wd \/ msg.h > r.ht)
             m_w  == IF fits THEN msg.w ELSE 0
             m_h  == IF fits THEN msg.h ELSE 0
         IN [w |-> msg.w, h |-> msg.h, lines |-> msg.h,
             x |-> (r.wd - m_w) \div 2, y |-> (r.ht - m_h) \div 2]

\* lines 248-295: one snapshot received and drawn
RecvCore ==
    /\ pc \in {"send0", "loop", "dropped"}
    /\ render.pc = "loop"
    /\ chan # <<>>
    /\ chan' = AfterRecv(chan)
    /\ \E msg \in (IF Received(chan).victory THEN Messages ELSE {NoMsg}) :
          render' = [render EXCEPT !.banner = Overlay(render, Received(chan), msg)]
    /\ UNCHANGED <<pc, gen, state, c>>

\* the random numbers gen_range returns in one run of generate_maze, reduced
\* modulo the number of candidate moves
RandStreams == {<<0>>, <<3, 1>>}

\* lines 122-175: the whole loop, for one stream of random numbers
RECURSIVE RunLoop(_, _, _)
RunLoop(g, stream, n) ==
    IF ~LoopCond(g) \/ g.panic THEN g
    ELSE IF Len(Moves(g)) > 0
         THEN RunLoop(LoopBody(g, stream[((n - 1) % Len(stream)) + 1] % Len(Moves(g))),
                      stream, n + 1)
         ELSE RunLoop(LoopBody(g, 0), stream, n)

\* main at line 218: GameState::new() has returned a fresh maze and the
\* render thread is spawned
Init ==
    /\ pc = "send0"
    /\ \E stream \in RandStreams :
          /\ gen = RunLoop(GenStart, stream, 1)
          /\ ~gen.panic
          /\ ~Expand(gen.board).oob
          /\ state = GameStateNew(Expand(gen.board).board)
    /\ c = "none"
    /\ render = RenderSpawned
    /\ chan = <<>>
    /\ keys = <<>>
    /\ sent = <<>>
    /\ rcvd = <<>>

\* the bound on the characters read in the runs that keep the histories
MaxKeys == 5

SendInitial ==
    /\ SendInitialCore
    /\ sent' = IF pc' = "panic" THEN sent ELSE Append(sent, state)
    /\ UNCHANGED <<keys, rcvd>>

ReadChar(ch) ==
    /\ Len(keys) < MaxKeys
    /\ ReadCharCore(ch)
    /\ keys' = Append(keys, ch)
    /\ sent' = IF pc' = "panic" THEN sent ELSE Append(sent, state')
    /\ UNCHANGED rcvd

Recv ==
    /\ RecvCore
    /\ rcvd' = Append(rcvd, Received(chan))
    /\ UNCHANGED <<keys, sent>>

Next ==
    \/ SendInitial
    \/ \E ch \in Chars : ReadChar(ch)
    \/ RenderStart
    \/ Recv

Spec == Init /\ [][Next]_vars

\* The same program with the histories switched off and the queue capped, so
\* that long games fit.
MaxQueue == 2

PlaySendInitial ==
    /\ SendInitialCore
    /\ UNCHANGED <<keys, sent, rcvd>>

PlayReadChar(ch) ==
    /\ Len(chan) < MaxQueue
    /\ ReadCharCore(ch)
    /\ UNCHANGED <<keys, sent, rcvd>>

PlayRecv ==
    /\ RecvCore
    /\ UNCHANGED <<keys, sent, rcvd>>

NextPlay ==
    \/ PlaySendInitial
    \/ \E ch \in Chars : PlayReadChar(ch)
    \/ RenderStart
    \/ PlayRecv

SpecPlay == Init /\ [][NextPlay]_vars

\* The render thread under a producer that goes away: the sender of the
\* channel is dropped while the receiver lives. (main itself never returns;
\* it drops tx only when its own send has failed.)
MaxFailed == 2

SenderDropped ==
    /\ pc \in {"send0", "loop"}
    /\ pc' = "dropped"
    /\ UNCHANGED <<gen, state, c, render, chan, keys, sent, rcvd>>

\* lines 247-248 and 296: rx.recv() on an empty channel without a sender
\* returns Err at once, the if let does not match, and the loop goes round
RecvDisconnected ==
    /\ pc = "dropped"
    /\ render.pc = "loop"
    /\ chan = <<>>
    /\ render.failed < MaxFailed
    /\ render' = [render EXCEPT !.failed = @ + 1]
    /\ UNCHANGED <<pc, gen, state, c, chan, keys, sent, rcvd>>

NextRender ==
    \/ PlaySendInitial
    \/ \E ch \in Chars : PlayReadChar(ch)
    \/ RenderStart
    \/ PlayRecv
    \/ SenderDropped
    \/ RecvDisconnected

SpecRender == Init /\ [][NextRender]_vars

\* ================================================================ claims
\* ------------------------------------------------ the maze as a graph
LCells == {Position(x, y) : x \in GenCells, y \in GenCells}

Adjacent(p, q) ==
    \/ p.x = q.x /\ (p.y = q.y + 1 \/ q.y = p.y + 1)
    \/ p.y = q.y /\ (p.x = q.x + 1 \/ q.x = p.x + 1)

\* two adjacent logical cells are joined when the display cell between them
\* is no wall
Joined(rb, p, q) == Adjacent(p, q) /\ rb[p.y + q.y][p.x + q.x] # WALL

\* the cells next to p in a grid of side n
Around(p, n) ==
    {q \in {Position(p.x + 1, p.y), Position(p.x - 1, p.y),
            Position(p.x, p.y + 1), Position(p.x, p.y - 1)} :
        q.x \in 0 .. n - 1 /\ q.y \in 0 .. n - 1}

\* the logical cells a passage path leads to from the cells seen, whose
\* newest members are front
RECURSIVE LGrow(_, _, _)
LGrow(rb, seen, front) ==
    LET new == UNION {{q \in Around(p, GEN_SIZE) : Joined(rb, p, q)} : p \in front}
               \ seen
    IN IF new = {} THEN seen ELSE LGrow(rb, seen \cup new, new)

LReach(rb, S) == LGrow(rb, S, S)

\* the passages, each as the pair (upper or left cell, lower or right cell)
PassageSet(rb) ==
    UNION {{<<p, q>> : q \in {r \in {Position(p.x + 1, p.y), Position(p.x, p.y + 1)} :
                                 r \in LCells /\ Joined(rb, p, r)}} : p \in LCells}

Perfect(rb) ==
    /\ LReach(rb, {Position(0, 0)}) = LCells
    /\ Cardinality(PassageSet(rb)) = Cardinality(LCells) - 1

Degree(rb, p) == Cardinality({q \in LCells : Joined(rb, p, q)})

\* generate_maze has returned (pc = "send0" in a run of the generator)
Returned == pc = "send0"

\* C1: whatever the random choices, the maze generate_maze returns is a
\* perfect maze: its logical cells, joined where no wall stands between two
\* adjacent ones, form a connected graph without a cycle.
C1_PerfectMaze == Returned => Perfect(Expand(gen.board).board)

\* a returned maze with a junction: the traversal popped and went on forward
C1_Witness ==
    /\ Returned
    /\ \E p \in LCells : Degree(Expand(gen.board).board, p) >= 3

\* ------------------------------------------------ the display grid
DCells == {Position(x, y) : x \in Cells, y \in Cells}

Open(b, p) == b[p.y][p.x] # WALL

\* the display cells a walk over cells that are no walls leads to
RECURSIVE DGrow(_, _, _)
DGrow(b, seen, front) ==
    LET new == UNION {{q \in Around(p, BOARD_SIZE) : Open(b, q)} : p \in front}
               \ seen
    IN IF new = {} THEN seen ELSE DGrow(b, seen \cup new, new)

DReach(b, S) == DGrow(b, S, S)

\* C2: in every state GameState::new builds, the goal cell is reachable from
\* the start cell by steps between adjacent display cells that are no walls.
C2_GoalReachable ==
    Returned =>
        /\ state.position = Position(0, 0)
        /\ state.win_position = Position(BOARD_SIZE - 1, BOARD_SIZE - 1)
        /\ state.win_position \in DReach(state.board, {state.position})

\* a fresh state whose start cell has a wall to its right
C2_Witness ==
    /\ Returned
    /\ state.board[0][1] = WALL
    /\ state.win_position \in DReach(state.board, {state.position})

\* ------------------------------------------------ move_position
MoveChars == {"w", "a", "s", "d"}

DirOf(ch) ==
    CASE ch = "w" -> "UP" [] ch = "a" -> "LEFT" [] ch = "s" -> "DOWN" [] ch = "d" -> "RIGHT"

\* the step is one pass of main's loop: it read c' and ended in a send
LoopPass == pc = "loop" /\ (Len(chan') = Len(chan) + 1 \/ pc' = "panic")

\* the step is a call of move_position
MoveCall == LoopPass /\ c' \in MoveChars

\* the queue's last two snapshots are equal: the last pass changed nothing
LastPassNoOp ==
    /\ pc = "loop"
    /\ Len(chan) >= 2
    /\ chan[Len(chan)] = chan[Len(chan) - 1]
    /\ chan[Len(chan)] = state

\* C3: move_position changes the state only if victory is false and the
\* destination cell is no wall; a call whose destination is a wall leaves
\* the state as it was, and the destination is always a cell of the grid.
C3_MoveOnlyIfValid ==
    [][MoveCall =>
        LET dest == NewPos(state.position, DirOf(c'))
        IN /\ dest \in DCells
           /\ state' # state => ~state.victory /\ state.board[dest.y][dest.x] # WALL
           /\ state.board[dest.y][dest.x] = WALL => state' = state]_vars

\* the last call was aimed at a wall and changed nothing
C3_Witness ==
    /\ LastPassNoOp
    /\ c \in MoveChars
    /\ LET dest == NewPos(state.position, DirOf(c))
       IN state.board[dest.y][dest.x] = WALL

\* C4: victory turns true exactly on an applied move_position call whose new
\* position is win_position; so victory holds iff the player is at
\* win_position.
C4_VictoryIffGoal ==
    /\ [](state.victory <=> state.position = state.win_position)
    /\ [][(~state.victory /\ state'.victory) <=>
            (/\ MoveCall
             /\ is_valid_move(state, NewPos(state.position, DirOf(c')))
             /\ NewPos(state.position, DirOf(c')) = state.win_position)]_vars

\* the last call is the one that won
C4_Witness ==
    /\ state.victory
    /\ Len(chan) >= 2
    /\ ~chan[Len(chan) - 1].victory
    /\ chan[Len(chan)].victory

\* C5: once victory is true no step changes position, board, win_position or
\* victory.
C5_WonIsTerminal == [][state.victory => state' = state]_vars

\* a call made after the game was won
C5_Witness ==
    /\ LastPassNoOp
    /\ c \in MoveChars
    /\ chan[Len(chan) - 1].victory

\* ------------------------------------------------ the markers
Holding(b, ch) == {p \in DCells : b[p.y][p.x] = ch}

\* C6: exactly one cell holds the player marker, the one at position, which
\* lies in the grid; exactly one holds the goal marker, the one at
\* win_position, unless the player stands there, and then none does.
C6_Markers ==
    /\ state.position \in DCells
    /\ Holding(state.board, SYMBOL) = {state.position}
    /\ Holding(state.board, GOAL) =
          IF state.position = state.win_position THEN {} ELSE {state.win_position}

\* the player stands on the goal
C6_Witness ==
    /\ state.position = state.win_position
    /\ state.board[state.win_position.y][state.win_position.x] = SYMBOL

\* the player already touches the edge a move in direction action aims at
AtEdge(position, action) ==
    \/ action = "UP" /\ position.y = 0
    \/ action = "LEFT" /\ position.x = 0
    \/ action = "DOWN" /\ position.y = BOARD_SIZE - 1
    \/ action = "RIGHT" /\ position.x = BOARD_SIZE - 1

\* C7: a move_position call toward an edge the player already touches leaves
\* position, board and victory as they were.
C7_EdgeNoOp ==
    [][(MoveCall /\ AtEdge(state.position, DirOf(c'))) => state' = state]_vars

\* the last call was aimed at the edge the player touches
C7_Witness ==
    /\ LastPassNoOp
    /\ c \in MoveChars
    /\ AtEdge(state.position, DirOf(c))
    /\ ~state.victory

\* ------------------------------------------------ the channel
IsPrefix(s, t) == Len(s) <= Len(t) /\ SubSeq(t, 1, Len(s)) = s

\* C8: the render thread receives the snapshots in the order main sent them,
\* none lost and none twice, each equal to the state at its send: what it has
\* received is a prefix of what was sent, and while it lives the rest is
\* queued in order.
C8_FifoSnapshots ==
    /\ IsPrefix(rcvd, sent)
    /\ render.pc # "dead" => rcvd \o chan = sent

\* the renderer lags: it has drawn two different snapshots, more are queued
\* and main has moved on
C8_Witness ==
    /\ Len(rcvd) >= 2
    /\ rcvd[1] # rcvd[2]
    /\ Len(chan) >= 2
    /\ chan[1] # chan[2]
    /\ state # rcvd[Len(rcvd)]

\* ------------------------------------------------ keystrokes and snapshots
\* the state GameState::new returned in this run
FreshState == GameStateNew(Expand(gen.board).board)

\* the state after the first i characters read
RECURSIVE StateAfter(_)
StateAfter(i) ==
    IF i = 0 THEN FreshState
    ELSE LET s == StateAfter(i - 1)
             k == keys[i]
         IN IF k \in MoveChars THEN move_position(s, DirOf(k)) ELSE s

\* the render thread has received every snapshot sent so far
Drained == pc = "loop" /\ render.pc = "loop" /\ chan = <<>>

AllRecognized == \A i \in 1 .. Len(keys) : keys[i] \in MoveChars

Positions(snaps) == [i \in 1 .. Len(snaps) |-> snaps[i].position]

ddsww == <<"d", "d", "s", "w", "w">>

\* no wall on the way (0,0), (1,0), (2,0), (2,1)
PathOpen ==
    /\ FreshState.board[0][1] # WALL
    /\ FreshState.board[0][2] # WALL
    /\ FreshState.board[1][2] # WALL

\* C9 as stated: after n recognized keystrokes the render thread has received
\* exactly n snapshots, the i-th showing the position after the i-th
\* keystroke; five for d, d, s, w, w.
C9_AsStated ==
    (Drained /\ AllRecognized) =>
        /\ Len(rcvd) = Len(keys)
        /\ \A i \in 1 .. Len(keys) : rcvd[i].position = StateAfter(i).position
        /\ (keys = ddsww /\ PathOpen) =>
              Positions(rcvd) = <<Position(1, 0), Position(2, 0), Position(2, 1),
                                  Position(2, 0), Position(2, 0)>>

\* C9, amended: after n recognized keystrokes the render thread has received
\* exactly n + 1 snapshots: the fresh state first, then for each i the state
\* after the i-th keystroke; six for d, d, s, w, w, at (0,0), (1,0), (2,0),
\* (2,1), (2,0), (2,0).
C9_SnapshotPerKey ==
    (Drained /\ AllRecognized) =>
        /\ Len(rcvd) = Len(keys) + 1
        /\ \A i \in 0 .. Len(keys) : rcvd[i + 1] = StateAfter(i)
        /\ (keys = ddsww /\ PathOpen) =>
              Positions(rcvd) = <<Position(0, 0), Position(1, 0), Position(2, 0),
                                  Position(2, 1), Position(2, 0), Position(2, 0)>>

\* d, d, s, w, w was read on an open path and everything sent is received
C9_Witness ==
    /\ Drained
    /\ keys = ddsww
    /\ PathOpen
    /\ Len(rcvd) = Len(keys) + 1

\* the step reads a character that is none of w, a, s, d
ReadOther ==
    /\ Len(keys') = Len(keys) + 1
    /\ keys'[Len(keys')] \notin MoveChars

\* C10 as stated: an unrecognized character leaves the game state unchanged
\* and sends no snapshot.
C10_AsStated ==
    [][ReadOther => (state' = state /\ chan' = chan /\ sent' = sent)]_vars

\* C10, amended: an unrecognized character leaves the game state unchanged,
\* and a snapshot of that unchanged state is sent all the same (the send
\* panics main when the render thread is gone).
C10_OtherCharStillSends ==
    [][ReadOther =>
        /\ state' = state
        /\ IF render.pc = "dead"
           THEN pc' = "panic" /\ chan' = chan /\ sent' = sent
           ELSE /\ pc' = pc
                /\ chan' = Append(chan, state)
                /\ sent' = Append(sent, state)]_vars

\* an unrecognized character was read after a move, and its snapshot is queued
C10_Witness ==
    /\ Len(keys) >= 2
    /\ keys[Len(keys)] \notin MoveChars
    /\ state # FreshState
    /\ Len(sent) = Len(keys) + 1
    /\ sent[Len(sent)] = sent[Len(sent) - 1]
    /\ chan # <<>>
    /\ chan[Len(chan)] = state

\* the step reads one of w, a, s, d
ReadRecognized ==
    /\ Len(keys') = Len(keys) + 1
    /\ keys'[Len(keys')] \in MoveChars

\* C11: every recognized keystroke is followed by exactly one send, also when
\* its move was a no-op, and the snapshot sent is the state after the move
\* attempt (the send panics main when the render thread is gone).
C11_RecognizedKeySends ==
    [][ReadRecognized =>
        LET after == move_position(state, DirOf(keys'[Len(keys')]))
        IN /\ state' = after
           /\ IF render.pc = "dead"
              THEN pc' = "panic" /\ chan' = chan /\ sent' = sent
              ELSE /\ pc' = pc
                   /\ chan' = Append(chan, after)
                   /\ sent' = Append(sent, after)]_vars

\* a keystroke aimed at a wall changed nothing, and its snapshot was sent
C11_Witness ==
    /\ pc = "loop"
    /\ Len(keys) >= 1
    /\ keys[Len(keys)] \in MoveChars
    /\ Len(sent) = Len(keys) + 1
    /\ sent[Len(sent)] = sent[Len(sent) - 1]
    /\ sent[Len(sent)] = state
    /\ chan # <<>>
    /\ chan[Len(chan)] = state
    /\ LET dest == NewPos(state.position, DirOf(keys[Len(keys)]))
       IN state.board[dest.y][dest.x] = WALL

\* C12 as stated: when the size query fails render falls back to
\* BOARD_SIZE + 1 for both sides, the offsets of line 245 do not underflow,
\* and the render thread does not abort.
C12_AsStated ==
    render.fallback =>
        /\ render.wd = BOARD_SIZE + 1
        /\ render.ht = BOARD_SIZE + 1
        /\ render.pc # "dead"
        /\ ~render.draw_x.wrapped
        /\ ~render.draw_y.wrapped

\* C13 as stated: a banner wider than the terminal or taller than it is
\* skipped, no line of it is written for that snapshot.
C13_AsStated ==
    (render.banner.w > render.wd \/ render.banner.h > render.ht)
        => render.banner.lines = 0

\* C14 as stated: once the sender is dropped and the queue is drained, the
\* render loop takes no further step unless it is the one that ends it.
C14_AsStated ==
    [][(pc = "dropped" /\ chan = <<>> /\ render.pc = "loop")
          => (render' = render \/ render'.pc = "done")]_vars

\* the traversal loop has ended: its condition was checked and found false
LoopEnded == pc = "gen" /\ ~LoopCond(gen)

\* the iterations the loop can still run: two for every logical cell not yet
\* entered (one to enter it, one to back out of it) and one for every cell
\* on the stack
Measure(g) ==
    2 * (GEN_SIZE * GEN_SIZE - Cardinality(VisitedNow(g))) + Len(g.stack)

\* C15: whatever the random choices, the traversal loop comes to an end (the
\* number of iterations left is never negative and every iteration lowers
\* it), and when it has ended every one of the GEN_SIZE x GEN_SIZE logical
\* cells is in the visited set.
C15_LoopTerminatesAllVisited ==
    /\ [](pc = "gen" => Measure(gen) >= 0)
    /\ [][gen' # gen => Measure(gen') < Measure(gen)]_vars
    /\ [](LoopEnded => gen.visited = LCells)

C15_Witness ==
    /\ LoopEnded
    /\ Len(gen.stack) = 0
    /\ Cardinality(gen.visited) = GEN_SIZE * GEN_SIZE

\* C16 as stated: once all GEN_SIZE x GEN_SIZE logical cells are in the
\* visited set the loop runs no further iteration, even with cells left on
\* the stack.
C16_AsStated ==
    [][(pc = "gen" /\ Cardinality(gen.visited) = GEN_SIZE * GEN_SIZE)
          => gen' = gen]_vars

\* the wall flag between two adjacent logical cells: wall_right of the left
\* one or wall_bottom of the upper one
WallBetween(b, p, q) ==
    IF p.y = q.y
    THEN b[p.y][IF p.x < q.x THEN p.x ELSE q.x].wall_right
    ELSE b[IF p.y < q.y THEN p.y ELSE q.y][p.x].wall_bottom

\* a stray opening: two adjacent logical cells no forward move joined and
\* no wall separates
Stray(g) ==
    \E p \in LCells : \E q \in Around(p, GEN_SIZE) :
        ~WallBetween(g.board, p, q) /\ {p, q} \notin g.carved

\* some run of the loop from g ends with a stray opening
RECURSIVE SomeRunStray(_)
SomeRunStray(g) ==
    IF ~LoopCond(g) \/ g.panic THEN Stray(g)
    ELSE IF Len(Moves(g)) = 0 THEN SomeRunStray(LoopBody(g, 0))
         ELSE \E idx \in 0 .. Len(Moves(g)) - 1 : SomeRunStray(LoopBody(g, idx))

\* C17 as stated: there is a run of generate_maze that ends with a stray
\* opening.
C17_AsStated == gen = GenStart => SomeRunStray(gen)

\* C17: every run of generate_maze ends without a stray opening: two
\* adjacent logical cells have no wall between them only if a forward move
\* joined them, and the forward moves are one fewer than the cells.
C17_NoStrayOpening ==
    LoopEnded =>
        /\ ~Stray(gen)
        /\ Cardinality(gen.carved) = GEN_SIZE * GEN_SIZE - 1

\* the loop has ended on a maze with a junction: it popped back to a cell
\* with a visited child and went forward from there once more
C17_Witness ==
    /\ LoopEnded
    /\ ~Stray(gen)
    /\ \E p \in LCells : Cardinality({e \in gen.carved : p \in e}) >= 3

\* C18: in the grid generate_maze returns every display cell at odd/odd
\* coordinates is a wall, every display cell at even/even coordinates is
\* empty, and the display cell between two adjacent logical cells is a wall
\* exactly when wall_right of the left cell, or wall_bottom of the upper
\* cell, is set.
C18_ExpansionLayout ==
    Returned =>
        LET rb == Expand(gen.board).board
        IN \A y \in Cells : \A x \in Cells :
              CASE x % 2 = 1 /\ y % 2 = 1 -> rb[y][x] = WALL
                [] x % 2 = 0 /\ y % 2 = 0 -> rb[y][x] = EMPTY
                [] x % 2 = 1 /\ y % 2 = 0 ->
                      (rb[y][x] = WALL) = gen.board[y \div 2][(x - 1) \div 2].wall_right
                [] x % 2 = 0 /\ y % 2 = 1 ->
                      (rb[y][x] = WALL) = gen.board[(y - 1) \div 2][x \div 2].wall_bottom

\* a returned grid with a wall under a cell of the last logical column and
\* one to the right of a cell of the last logical row
C18_Witness ==
    /\ Returned
    /\ \E y \in 0 .. GEN_SIZE - 2 :
          /\ gen.board[y][GEN_SIZE - 1].wall_bottom
          /\ Expand(gen.board).board[2 * y + 1][BOARD_SIZE - 1] = WALL
    /\ \E x \in 0 .. GEN_SIZE - 2 :
          /\ gen.board[GEN_SIZE - 1][x].wall_right
          /\ Expand(gen.board).board[BOARD_SIZE - 1][2 * x + 1] = WALL

\* C19: no run of generate_maze pops an empty stack, reads the top of an
\* empty stack or writes outside the display grid (either would end the run
\* in a panic): the stack is not empty in any iteration, where every pop
\* and top-of-stack read is, wall_right is never set in the last logical
\* column and wall_bottom never in the last logical row.
C19_NoPanicInGenerate ==
    /\ pc # "panic"
    /\ ~gen.panic
    /\ (pc = "gen" /\ LoopCond(gen)) => Len(gen.stack) > 0
    /\ \A k \in GenCells :
          /\ ~gen.board[k][GEN_SIZE - 1].wall_right
          /\ ~gen.board[GEN_SIZE - 1][k].wall_bottom

\* the last pop has emptied the stack, and walls stand in the last column
\* and the last row that the expansion keeps inside the grid
C19_Witness ==
    /\ pc = "gen"
    /\ gen.popped
    /\ Len(gen.stack) = 0
    /\ ~gen.panic
    /\ \E k \in GenCells : gen.board[k][GEN_SIZE - 1].wall_bottom
    /\ \E k \in GenCells : gen.board[GEN_SIZE - 1][k].wall_right

\* the wall cells of a game state, and the cells where two boards differ
WallCells(self) == {p \in DCells : self.board[p.y][p.x] = WALL}

Changed(s, t) == {p \in DCells : s.board[p.y][p.x] # t.board[p.y][p.x]}

\* C20: a step of the game changes at most the board cells at the old and
\* the new player position, never win_position, and leaves the set of wall
\* cells as it was: no wall is overwritten and no cell becomes a wall.
C20_MoveFrame ==
    [][/\ Changed(state, state') \subseteq {state.position, state'.position}
       /\ state'.win_position = state.win_position
       /\ WallCells(state') = WallCells(state)]_vars

\* the last pass moved the player: the two newest snapshots differ in
\* exactly the old and the new cell, next to a wall that stayed
C20_Witness ==
    /\ pc = "loop"
    /\ Len(chan) >= 2
    /\ LET old == chan[Len(chan) - 1]
           new == chan[Len(chan)]
       IN /\ old.position # new.position
          /\ Changed(old, new) = {old.position, new.position}
          /\ WallCells(old) = WallCells(new)
          /\ \E p \in Around(old.position, BOARD_SIZE) : p \in WallCells(new)

====
